---- MODULE Spec2Model ----
(***************************************************************************)
(* Transaction lifecycle of src/app.py: the three API handlers             *)
(* (create_transaction, cancel_transaction, check_transaction), the        *)
(* Celery task check_pending_transactions, the create-admin CLI command    *)
(* and the two flask_admin ModelViews that edit users and transactions.    *)
(*                                                                         *)
(* The store is the SQLite database behind db.session.  Every handler      *)
(* runs in its own session; a step of the model is one database round      *)
(* trip of a handler (a SELECT, or a flush + COMMIT) together with the     *)
(* Python code up to the next round trip, so that two handlers interleave  *)
(* exactly where the code lets them.                                       *)
(*                                                                         *)
(* resp is the answer of the step just taken.  Return hands it to the      *)
(* caller before the next step is taken, so an answer is seen in the state *)
(* that follows the step that gave it and in no other.                     *)
(*                                                                         *)
(* Units: commission_rate is counted in hundredths (0.01 is 1), so a       *)
(* commission is counted in hundredths of the currency unit.  Instants     *)
(* are seconds.                                                            *)
(***************************************************************************)
EXTENDS Integers, Sequences, FiniteSets

\* ------------------------------------------------------------------ bounds
\* At most MaxUsers rows in table user, MaxTx rows in table transaction.
MaxUsers == 1
MaxTx == 2
\* Request workers that can be inside an API handler at the same time.
Workers == {"w1", "w2"}
\* Amounts a create request carries; commission rates an administrator sets.
Amounts == {10}
Rates == {1, 2}
\* The instants (seconds) at which something happens.
Instants == {0, 1, 901}

\* ------------------------------------------------------- program constants
\* User.commission_rate default, 0.01, in hundredths.
DefaultRate == 1
\* The age in seconds beyond which a pending transaction is swept.
ExpirySeconds == 900
Statuses == {"pending", "confirmed", "canceled", "expired"}

\* Identifiers a request can carry: those of the rows, and one of no row.
UserIds == 1..(MaxUsers + 1)
TxIds == 1..(MaxTx + 1)

VARIABLES
    users,      \* table user: users[i] is the row with id i
    txs,        \* table transaction: txs[i] is the row with id i
    clock,      \* datetime.utcnow()
    session,    \* session[w]: what worker w's handler holds between round trips
    resp,       \* the response (or task outcome) the last step produced
    posts,      \* the requests.post calls made so far, in order
    made,       \* history: made[i] is row i as inserted, with the rate then read
    stale       \* history: workers whose loaded row another session has written

vars == <<users, txs, clock, session, resp, posts, made, stale>>

Idle == [pc |-> "idle", id |-> 0, amount |-> 0, rate |-> 0, commission |-> 0]
NoResp == [op |-> "none", arg |-> 0, code |-> 0, id |-> 0, status |-> ""]
Response(op, arg, code, id, status) ==
    [op |-> op, arg |-> arg, code |-> code, id |-> id, status |-> status]

\* Mutant of HasTx: the row with the highest id is not found.
HasTx_OffByOne(id) == id \in 1..(Len(txs) - 1)

\* Query.get(id): the row, or None when no row has that primary key.
HasUser(id) == id \in 1..Len(users)
HasTx(id) == id \in 1..Len(txs)

\* Mutant of Commission: the column default is used, not the owner's rate.
Commission_DefaultRate(amount, rate) == amount * DefaultRate

\* commission = amount * user.commission_rate
Commission(amount, rate) == amount * rate

\* Transaction(amount=..., commission=..., user_id=...): status and created_at
\* take their column defaults.
NewTransaction(amount, commission, user_id) ==
    [amount |-> amount, commission |-> commission, status |-> "pending",
     created_at |-> clock, user_id |-> user_id]

\* Mutant of IsPending: every row not yet canceled is canceled.
IsPending_NotCanceled(row) == row.status # "canceled"

\* if transaction.status == 'pending':
IsPending(row) == row.status = "pending"

\* Mutant of Canceled: the wrong status string is stored.
Canceled_AsExpired(row) == [row EXCEPT !.status = "expired"]

\* transaction.status = 'canceled'
Canceled(row) == [row EXCEPT !.status = "canceled"]

\* The in-flight cancels, other than worker w's, that have loaded row t: a
\* write to t by w (or by an administrator, w = "") makes what they hold stale.
Readers(t, w) ==
    {v \in Workers \ {w} : session[v].pc = "cancel_commit" /\ session[v].id = t}

Init ==
    /\ users = <<>>
    /\ txs = <<>>
    /\ clock = 0
    /\ session = [w \in Workers |-> Idle]
    /\ resp = NoResp
    /\ posts = <<>>
    /\ made = <<>>
    /\ stale = {}

\* Time passes.
Tick ==
    /\ resp = NoResp
    /\ \E t \in Instants : t > clock /\ clock' = t
    /\ resp' = NoResp
    /\ UNCHANGED <<users, txs, session, posts, made, stale>>

\* flask create-admin
create_admin ==
    /\ resp = NoResp
    /\ Len(users) < MaxUsers
    /\ users' = Append(users, [commission_rate |-> DefaultRate, webhook_url |-> FALSE])
    /\ resp' = NoResp
    /\ UNCHANGED <<txs, clock, session, posts, made, stale>>

\* Mutant of UserModelView: saving a rate recomputes the commissions of the
\* user's transactions.
UserModelView_Recompute ==
    /\ resp = NoResp
    /\ \E u \in 1..Len(users), r \in Rates, h \in BOOLEAN :
          /\ [commission_rate |-> r, webhook_url |-> h] # users[u]
          /\ users' = [users EXCEPT ![u] = [commission_rate |-> r, webhook_url |-> h]]
          /\ txs' = [t \in 1..Len(txs) |->
                        IF txs[t].user_id = u
                        THEN [txs[t] EXCEPT !.commission = txs[t].amount * r]
                        ELSE txs[t]]
    /\ resp' = NoResp
    /\ UNCHANGED <<clock, session, posts, made, stale>>

\* ModelView(User): an administrator saves the edit form of user u.
UserModelView ==
    /\ resp = NoResp
    /\ \E u \in 1..Len(users), r \in Rates, h \in BOOLEAN :
          /\ [commission_rate |-> r, webhook_url |-> h] # users[u]
          /\ users' = [users EXCEPT ![u] = [commission_rate |-> r, webhook_url |-> h]]
    /\ resp' = NoResp
    /\ UNCHANGED <<txs, clock, session, posts, made, stale>>

\* ModelView(Transaction): the external actor saves a new status for row t.
TransactionModelView ==
    /\ resp = NoResp
    /\ \E t \in 1..Len(txs), s \in Statuses :
          /\ s # txs[t].status
          /\ txs' = [txs EXCEPT ![t].status = s]
          /\ stale' = stale \cup Readers(t, "")
    /\ resp' = NoResp
    /\ UNCHANGED <<users, clock, session, posts, made>>

\* Mutant of create_lookup: the row is added and committed before the user is
\* tested.
create_lookup_AddsFirst(w) ==
    /\ resp = NoResp
    /\ session[w].pc = "idle"
    /\ \E user_id \in UserIds, amount \in Amounts :
          IF ~HasUser(user_id)
          THEN /\ Len(txs) < MaxTx
               /\ txs' = Append(txs, NewTransaction(amount, amount * DefaultRate, user_id))
               /\ made' = Append(made, [amount |-> amount, rate |-> DefaultRate,
                                        created_at |-> clock, user_id |-> user_id])
               /\ resp' = Response("create", user_id, 404, 0, "")
               /\ UNCHANGED session
          ELSE /\ session' = [session EXCEPT ![w] =
                     [pc |-> "create_commit", id |-> user_id, amount |-> amount,
                      rate |-> users[user_id].commission_rate,
                      commission |-> Commission(amount, users[user_id].commission_rate)]]
               /\ resp' = NoResp
               /\ UNCHANGED <<txs, made>>
    /\ UNCHANGED <<users, clock, posts, stale>>

\* create_transaction up to the commit: the user lookup, the 404, the commission.
create_lookup(w) ==
    /\ resp = NoResp
    /\ session[w].pc = "idle"
    /\ \E user_id \in UserIds, amount \in Amounts :
          IF ~HasUser(user_id)
          THEN /\ resp' = Response("create", user_id, 404, 0, "")
               /\ UNCHANGED session
          ELSE /\ session' = [session EXCEPT ![w] =
                     [pc |-> "create_commit", id |-> user_id, amount |-> amount,
                      rate |-> users[user_id].commission_rate,
                      commission |-> Commission(amount, users[user_id].commission_rate)]]
               /\ resp' = NoResp
    /\ UNCHANGED <<users, txs, clock, posts, made, stale>>

\* db.session.add(transaction); db.session.commit(); return transaction.id
create_commit(w) ==
    /\ resp = NoResp
    /\ session[w].pc = "create_commit"
    /\ Len(txs) < MaxTx
    /\ txs' = Append(txs, NewTransaction(session[w].amount, session[w].commission,
                                         session[w].id))
    /\ made' = Append(made, [amount |-> session[w].amount, rate |-> session[w].rate,
                             created_at |-> clock, user_id |-> session[w].id])
    /\ resp' = Response("create", session[w].id, 201, Len(txs) + 1, "")
    /\ session' = [session EXCEPT ![w] = Idle]
    /\ UNCHANGED <<users, clock, posts, stale>>

\* cancel_transaction up to the commit: the lookup, the 404, the status test.
\* A row that is not pending is answered from the loaded object.
cancel_lookup(w) ==
    /\ resp = NoResp
    /\ session[w].pc = "idle"
    /\ \E transaction_id \in TxIds :
          IF ~HasTx(transaction_id)
          THEN /\ resp' = Response("cancel", transaction_id, 404, 0, "")
               /\ UNCHANGED session
          ELSE IF IsPending(txs[transaction_id])
          THEN /\ session' = [session EXCEPT ![w] =
                     [Idle EXCEPT !.pc = "cancel_commit", !.id = transaction_id]]
               /\ resp' = NoResp
          ELSE /\ resp' = Response("cancel", transaction_id, 200, 0,
                                   txs[transaction_id].status)
               /\ UNCHANGED session
    /\ UNCHANGED <<users, txs, clock, posts, made, stale>>

\* transaction.status = 'canceled'; db.session.commit()
\* The flush is UPDATE transaction SET status = 'canceled' WHERE id = ?.
cancel_commit(w) ==
    /\ resp = NoResp
    /\ session[w].pc = "cancel_commit"
    /\ txs' = [txs EXCEPT ![session[w].id] = Canceled(@)]
    /\ session' = [session EXCEPT ![w].pc = "cancel_reply"]
    /\ stale' = stale \cup Readers(session[w].id, w)
    /\ resp' = NoResp
    /\ UNCHANGED <<users, clock, posts, made>>

\* return jsonify({'status': transaction.status}) after the commit: the commit
\* expired the loaded object, so the attribute is read from the row again.
cancel_reply(w) ==
    /\ resp = NoResp
    /\ session[w].pc = "cancel_reply"
    /\ resp' = Response("cancel", session[w].id, 200, 0, txs[session[w].id].status)
    /\ session' = [session EXCEPT ![w] = Idle]
    /\ stale' = stale \ {w}
    /\ UNCHANGED <<users, txs, clock, posts, made>>

\* check_transaction: one lookup, then the answer.
check_transaction ==
    /\ resp = NoResp
    /\ \E transaction_id \in TxIds :
          resp' = IF HasTx(transaction_id)
                  THEN Response("check", transaction_id, 200, transaction_id,
                                txs[transaction_id].status)
                  ELSE Response("check", transaction_id, 404, 0, "")
    /\ UNCHANGED <<users, txs, clock, session, posts, made, stale>>

\* Mutant of check_pending_transactions: the clock is read, and every row
\* older than 900 s is expired, whatever its status.
check_pending_transactions_AllRows ==
    /\ resp = NoResp
    /\ txs' = [t \in 1..Len(txs) |->
                  IF clock - txs[t].created_at > ExpirySeconds
                  THEN [txs[t] EXCEPT !.status = "expired"]
                  ELSE txs[t]]
    /\ resp' = Response("sweep", 0, 0, 0, "SUCCESS")
    /\ UNCHANGED <<users, clock, session, posts, made, stale>>

\* check_pending_transactions.  Its first statement is
\* datetime.datetime.utcnow(), and datetime is the class imported by
\* "from datetime import datetime": the attribute lookup raises
\* AttributeError, the task ends in failure, and the query, the loop, the
\* commit and requests.post below it are never executed.
check_pending_transactions ==
    /\ resp = NoResp
    /\ resp' = Response("sweep", 0, 0, 0, "AttributeError")
    /\ UNCHANGED <<users, txs, clock, session, posts, made, stale>>

\* The answer leaves the server: return jsonify(...), or the task's failure.
Return ==
    /\ resp # NoResp
    /\ resp' = NoResp
    /\ UNCHANGED <<users, txs, clock, session, posts, made, stale>>

Next ==
    \/ Tick
    \/ create_admin
    \/ UserModelView
    \/ TransactionModelView
    \/ \E w \in Workers : create_lookup(w)
    \/ \E w \in Workers : create_commit(w)
    \/ \E w \in Workers : cancel_lookup(w)
    \/ \E w \in Workers : cancel_commit(w)
    \/ \E w \in Workers : cancel_reply(w)
    \/ check_transaction
    \/ check_pending_transactions
    \/ Return

Spec == Init /\ [][Next]_vars

\* ------------------------------------------------------------------ claims
\* A step of create, cancel, check or the sweep: it moves a handler on or
\* gives an answer.  The steps left are the clock's, the administrator's and
\* Return.
HandlerStep == session' # session \/ resp' # NoResp

Rows == 1..Len(txs)

\* C1, as claimed: a step of create, cancel, check or the sweep changes a
\* stored status only from pending, and only to canceled or expired; a
\* stored canceled, expired or confirmed status is never changed by one.
C1_TerminalIsFinal ==
    [][HandlerStep =>
         \A t \in Rows :
            txs'[t].status # txs[t].status =>
               /\ txs[t].status = "pending"
               /\ txs'[t].status \in {"canceled", "expired"}]_vars

\* C1, amended: a status change made by a step of create, cancel, check or
\* the sweep is the sweep's pending -> expired or the write of canceled by a
\* cancel that had read the row as pending; that write replaces a status
\* other than pending only when another session wrote the row between the
\* cancel's read and its commit.
C1_OnlyCancelWrites ==
    [][HandlerStep =>
         \A t \in Rows :
            txs'[t].status # txs[t].status =>
               \/ /\ resp'.op = "sweep"
                  /\ txs[t].status = "pending" /\ txs'[t].status = "expired"
               \/ \E w \in Workers :
                     /\ session[w].pc = "cancel_commit"
                     /\ session[w].id = t
                     /\ session'[w].pc = "cancel_reply"
                     /\ txs'[t].status = "canceled"
                     /\ (w \notin stale => txs[t].status = "pending")]_vars

\* A cancel has committed canceled over a row that another session wrote
\* after the cancel had read it.
C1_Witness ==
    \E w \in stale :
       /\ session[w].pc = "cancel_reply"
       /\ txs[session[w].id].status = "canceled"

\* C4: a cancel that finds its row pending writes canceled to that row and to
\* nothing else, a cancel that finds it confirmed, expired or canceled writes
\* nothing, and either way the answer is 200 with the status the row has when
\* the call ends.
C4_CancelContract ==
    [][/\ \A w \in Workers :
             /\ (session[w].pc = "idle" /\ session'[w].pc = "cancel_commit" =>
                   /\ session'[w].id \in Rows
                   /\ txs[session'[w].id].status = "pending"
                   /\ txs' = txs)
             /\ (session[w].pc = "cancel_commit" /\ session'[w] # session[w] =>
                   /\ session'[w].pc = "cancel_reply"
                   /\ session'[w].id = session[w].id
                   /\ txs' = [txs EXCEPT ![session[w].id].status = "canceled"])
             /\ (session[w].pc = "cancel_reply" /\ session'[w] # session[w] =>
                   /\ resp'.op = "cancel" /\ resp'.code = 200
                   /\ resp'.arg = session[w].id
                   /\ txs' = txs)
       /\ (resp'.op = "cancel" /\ resp'.arg \in Rows =>
             /\ resp'.code = 200
             /\ resp'.status = txs'[resp'.arg].status
             /\ resp'.status # "pending" \/ session' # session
             /\ session' = session => txs' = txs)]_vars

\* A cancel of a row that was not pending has answered with its status.
C4_Witness ==
    /\ resp.op = "cancel" /\ resp.code = 200
    /\ resp.status \in {"confirmed", "expired"}
    /\ \E t \in Rows : txs[t].status = "canceled"

\* C5: a create for a user_id of no user answers 404 and leaves both tables
\* and every handler as they were.
C5_UnknownUser ==
    [][resp'.op = "create" /\ resp'.arg \notin 1..Len(users) =>
         /\ resp'.code = 404
         /\ txs' = txs /\ users' = users /\ session' = session]_vars

\* A create has answered 404 while transactions were stored.
C5_Witness == resp.op = "create" /\ resp.code = 404 /\ Len(txs) > 0

\* C9: a cancel or a check for a transaction_id of no row answers 404 and
\* changes no row; a check for a row changes no row and answers 200 with the
\* row's id and its stored status.
C9_NotFoundAndCheck ==
    [][/\ (resp'.op \in {"cancel", "check"} /\ resp'.arg \notin Rows =>
             resp'.code = 404 /\ txs' = txs /\ users' = users)
       /\ (resp'.op = "check" =>
             /\ txs' = txs /\ users' = users /\ session' = session
             /\ resp'.arg \in Rows =>
                  /\ resp'.code = 200
                  /\ resp'.id = resp'.arg
                  /\ resp'.status = txs[resp'.arg].status)]_vars

\* A cancel has answered 404 while transactions were stored.
C9_Witness == resp.op = "cancel" /\ resp.code = 404 /\ Len(txs) > 0

\* C6: a create for an existing user computes the commission from the rate it
\* reads, and its commit appends one row and touches no other: the row has
\* the next id, status pending, the amount, the owner and that commission,
\* and the answer is 201 with the new id.
C6_CreateAddsOneRow ==
    [][/\ \A w \in Workers :
             /\ (session[w].pc = "idle" /\ session'[w].pc = "create_commit" =>
                   /\ session'[w].id \in 1..Len(users)
                   /\ session'[w].amount \in Amounts
                   /\ session'[w].commission =
                         session'[w].amount * users[session'[w].id].commission_rate
                   /\ txs' = txs)
             /\ (session[w].pc = "create_commit" /\ session'[w] # session[w] =>
                   /\ Len(txs') = Len(txs) + 1
                   /\ \A t \in Rows : txs'[t] = txs[t]
                   /\ txs'[Len(txs) + 1] =
                         [amount |-> session[w].amount,
                          commission |-> session[w].commission,
                          status |-> "pending", created_at |-> clock,
                          user_id |-> session[w].id]
                   /\ resp'.op = "create" /\ resp'.code = 201
                   /\ resp'.id = Len(txs) + 1
                   /\ users' = users)
       /\ (Len(txs') # Len(txs) =>
             \E w \in Workers :
                session[w].pc = "create_commit" /\ session'[w].pc = "idle")]_vars

\* Two creates with the same arguments have left two rows, and the second
\* has just been answered with its id.
C6_Witness ==
    /\ Len(txs) = 2
    /\ txs[1].amount = txs[2].amount /\ txs[1].user_id = txs[2].user_id
    /\ resp.op = "create" /\ resp.code = 201 /\ resp.id = 2

\* C7: every stored commission is the row's amount times the rate its owner
\* had when the create read it, and amount, created_at and owner of every
\* row are as inserted, whatever has happened since.
C7_CommissionSnapshot ==
    /\ Len(made) = Len(txs)
    /\ \A t \in Rows :
          /\ txs[t].commission = made[t].amount * made[t].rate
          /\ txs[t].amount = made[t].amount
          /\ txs[t].created_at = made[t].created_at
          /\ txs[t].user_id = made[t].user_id

\* The owner's rate has changed since a row was created, and the row has
\* been canceled since.
C7_Witness ==
    \E t \in Rows :
       /\ users[txs[t].user_id].commission_rate # made[t].rate
       /\ txs[t].status = "canceled"

\* Age of row t in seconds, and whether a sweep at this instant is to expire it.
Age(t) == clock - txs[t].created_at
Due(t) == txs[t].status = "pending" /\ Age(t) > ExpirySeconds

\* The requests.post calls a step adds that carry row t and status s.
NewPosts(t, s) ==
    Cardinality({i \in (Len(posts) + 1)..Len(posts') :
                    posts'[i] = [transaction_id |-> t, status |-> s]})

\* C8: a sweep run changes no row that is not pending, adds and removes no
\* row, and posts nothing about a row that is not pending.
C8_SweepSkipsNonPending ==
    [][resp'.op = "sweep" =>
         /\ Len(txs') = Len(txs)
         /\ \A t \in Rows :
               txs[t].status # "pending" =>
                  /\ txs'[t] = txs[t]
                  /\ \A s \in Statuses : NewPosts(t, s) = 0]_vars

\* A sweep has run over a row older than 900 s that is not pending.
C8_Witness ==
    /\ resp.op = "sweep"
    /\ \E t \in Rows : txs[t].status # "pending" /\ Age(t) > ExpirySeconds

\* C2, as claimed: when a sweep run ends, every row that was pending and
\* older than 900 s is expired, and every other pending row is still pending.
C2_SweepExpiresOld ==
    [][resp'.op = "sweep" =>
         \A t \in Rows :
            txs[t].status = "pending" =>
               txs'[t].status = IF Age(t) > ExpirySeconds THEN "expired"
                                ELSE "pending"]_vars

\* C3, as claimed: a sweep run posts exactly once, with the row's id and
\* status expired, for each row it is to expire whose owner has a
\* webhook_url, and posts nothing else.
C3_OneNotification ==
    [][resp'.op = "sweep" =>
         \A t \in Rows :
            /\ NewPosts(t, "expired") =
                  IF Due(t) /\ users[txs[t].user_id].webhook_url THEN 1 ELSE 0
            /\ \A s \in Statuses \ {"expired"} : NewPosts(t, s) = 0]_vars

\* C10, as claimed: for each row a sweep run is to expire whose owner has a
\* webhook_url, the run stores expired before it posts: the row is expired
\* when the run ends, and the one post made for it carries the stored status
\* expired, not pending.
C10_PersistThenNotify ==
    [][resp'.op = "sweep" =>
         \A t \in Rows :
            Due(t) /\ users[txs[t].user_id].webhook_url =>
               /\ txs'[t].status = "expired"
               /\ NewPosts(t, "expired") = 1
               /\ NewPosts(t, "pending") = 0]_vars

====
